---- MODULE Spec2Model ----
(***************************************************************************)
(* Lazy-propagation segment tree of                                        *)
(* "Section-3-Data-Structures/3.3.2 Segment Tree (Range Update).cpp".      *)
(*                                                                         *)
(* The tree is the three vectors value, delta, pending of 4*len slots,     *)
(* node i having the children 2i+1 and 2i+2.  The recursive member         *)
(* functions build, update_delta, query and update are recursive           *)
(* operators over a working record [value, delta, pending, oob, calls];    *)
(* oob records an access outside the vectors (undefined behaviour in the   *)
(* C++ code) and calls is the set of recursive calls made, with depth.     *)
(***************************************************************************)
EXTENDS Integers, Sequences, FiniteSets, TLC

\* Bounds of the exploration: the largest array, and the budget of array
\* cells a run may update, each update call being charged the whole array
\* (an array of n elements gets MaxCells \div n update calls).
MaxN == 3
MaxCells == 6

\* Initial array values and update deltas explored in the free runs.
Vals == {1, 4}
Deltas == {-1, 2}

\* Initial values of the construction runs.
BuildVals == {-2, 1, 4}

\* The two instantiations named in the source: the default code (min, set)
\* and the documented alternative (sum, increment).
OpSets == {"minset", "suminc"}

VARIABLES
  ops,      \* which instantiation of join_values/join_value_with_delta/join_deltas
  len,      \* segment_tree::len
  value,    \* segment_tree::value   (0..4*len-1 -> T)
  delta,    \* segment_tree::delta   (0..4*len-1 -> T)
  pending,  \* segment_tree::pending (0..4*len-1 -> bool)
  A,        \* reference array: the logical content the documentation promises
  nupd,     \* number of update calls made so far
  last,     \* the kind of the last public call: "construct", "update", "query"
  outcome,  \* "ok", or what undefined behaviour produced: "crash" / "garbage"
  pc        \* 0: any call may come next; 1..17: position in main()

vars == <<ops, len, value, delta, pending, A, nupd, last, outcome, pc>>

----------------------------------------------------------------------------
\* Helpers of the C++ language and library.

\* int division by two, truncating toward zero as C++ does.
CDiv2(a) == IF a >= 0 THEN a \div 2 ELSE -((-a) \div 2)

std_min(a, b) == IF b < a THEN b ELSE a

std_max(a, b) == IF a < b THEN b ELSE a

----------------------------------------------------------------------------
\* The pluggable operators.

join_values_min(a, b) == std_min(a, b)

\* Mutant of join_values_sum: the smaller operand instead of the sum.
join_values_sum_min(a, b) == std_min(a, b)

join_values_sum(a, b) == a + b

\* Mutant of join_value_with_delta_set: the delta is added to the value.
join_value_with_delta_set_add(v, d, n) == v + d

join_value_with_delta_set(v, d, n) == d

\* Mutant of join_value_with_delta_inc: the length of the span is ignored.
join_value_with_delta_inc_nolen(v, d, n) == v + d

join_value_with_delta_inc(v, d, n) == v + d * n

\* Mutant of join_deltas_set: the older delta wins.
join_deltas_set_older(d1, d2) == d1

join_deltas_set(d1, d2) == d2

join_deltas_inc(d1, d2) == d1 + d2

\* The operators for T = the sequence of the updates applied, in order:
\* a delta is the sequence of the update calls it stands for, a value is
\* the sequence of the updates applied to it, and the aggregate of two
\* values is their longest common suffix (so that applying a delta to both
\* operands applies it to the aggregate).
RECURSIVE join_values_hist(_, _)
join_values_hist(a, b) ==
  IF a = <<>> \/ b = <<>> THEN <<>>
  ELSE IF a[Len(a)] # b[Len(b)] THEN <<>>
  ELSE Append(join_values_hist(SubSeq(a, 1, Len(a) - 1),
                               SubSeq(b, 1, Len(b) - 1)), a[Len(a)])

join_value_with_delta_hist(v, d, n) == v \o d

join_deltas_hist(d1, d2) == d1 \o d2

join_values(a, b) ==
  IF ops = "minset" THEN join_values_min(a, b)
  ELSE IF ops = "suminc" THEN join_values_sum(a, b)
  ELSE join_values_hist(a, b)

join_value_with_delta(v, d, n) ==
  IF ops = "minset" THEN join_value_with_delta_set(v, d, n)
  ELSE IF ops = "suminc" THEN join_value_with_delta_inc(v, d, n)
  ELSE join_value_with_delta_hist(v, d, n)

join_deltas(d1, d2) ==
  IF ops = "minset" THEN join_deltas_set(d1, d2)
  ELSE IF ops = "suminc" THEN join_deltas_inc(d1, d2)
  ELSE join_deltas_hist(d1, d2)

----------------------------------------------------------------------------
\* Node storage.

Slots(w) == DOMAIN w.value

\* Mutant of Resize: 2*len slots.
Resize_2n(n) ==
  [value   |-> [i \in 0..(2*n - 1) |-> 0],
   delta   |-> [i \in 0..(2*n - 1) |-> 0],
   pending |-> [i \in 0..(2*n - 1) |-> FALSE],
   oob     |-> FALSE,
   calls   |-> {}]

\* value.resize(4*len); delta.resize(4*len); pending.resize(4*len, false):
\* int slots are value-initialised to 0.
Resize(n) ==
  [value   |-> [i \in 0..(4*n - 1) |-> 0],
   delta   |-> [i \in 0..(4*n - 1) |-> 0],
   pending |-> [i \in 0..(4*n - 1) |-> FALSE],
   oob     |-> FALSE,
   calls   |-> {}]

Fault(w) == [w EXCEPT !.oob = TRUE]

Call(i, lo, hi, tgt_lo, tgt_hi, depth) ==
  [i |-> i, lo |-> lo, hi |-> hi, tgt_lo |-> tgt_lo, tgt_hi |-> tgt_hi,
   depth |-> depth]

----------------------------------------------------------------------------
\* build(i, lo, hi, v) and build(i, lo, hi, arr).  Every returning call
\* writes value[i], so a call on a node outside the storage either writes
\* outside the vector or never returns: both are recorded as oob.

RECURSIVE build(_, _, _, _, _)
build(w, i, lo, hi, v) ==
  IF w.oob \/ i \notin Slots(w) THEN Fault(w)
  ELSE IF lo = hi THEN [w EXCEPT !.value[i] = v]
  ELSE LET w1 == build(w, i*2 + 1, lo, CDiv2(lo + hi), v)
           w2 == build(w1, i*2 + 2, CDiv2(lo + hi) + 1, hi, v)
       IN  IF w2.oob \/ (i*2 + 2) \notin Slots(w2) THEN Fault(w2)
           ELSE [w2 EXCEPT !.value[i] =
                   join_values(w2.value[i*2 + 1], w2.value[i*2 + 2])]

RECURSIVE build_it(_, _, _, _, _)

\* Mutant of build: an internal node joins its left child with itself.
build_it_left(w, i, lo, hi, arr) ==
  IF w.oob \/ i \notin Slots(w) THEN Fault(w)
  ELSE IF lo = hi THEN
         IF lo \in DOMAIN arr THEN [w EXCEPT !.value[i] = arr[lo]] ELSE Fault(w)
  ELSE LET w1 == build_it(w, i*2 + 1, lo, CDiv2(lo + hi), arr)
           w2 == build_it(w1, i*2 + 2, CDiv2(lo + hi) + 1, hi, arr)
       IN  IF w2.oob \/ (i*2 + 2) \notin Slots(w2) THEN Fault(w2)
           ELSE [w2 EXCEPT !.value[i] =
                   join_values(w2.value[i*2 + 1], w2.value[i*2 + 1])]

build_it(w, i, lo, hi, arr) ==
  IF w.oob \/ i \notin Slots(w) THEN Fault(w)
  ELSE IF lo = hi THEN
         IF lo \in DOMAIN arr THEN [w EXCEPT !.value[i] = arr[lo]] ELSE Fault(w)
  ELSE LET w1 == build_it(w, i*2 + 1, lo, CDiv2(lo + hi), arr)
           w2 == build_it(w1, i*2 + 2, CDiv2(lo + hi) + 1, hi, arr)
       IN  IF w2.oob \/ (i*2 + 2) \notin Slots(w2) THEN Fault(w2)
           ELSE [w2 EXCEPT !.value[i] =
                   join_values(w2.value[i*2 + 1], w2.value[i*2 + 2])]

\* segment_tree(int n, const T &v)
segment_tree(n, v) == build(Resize(n), 0, 0, n - 1, v)

\* segment_tree(It lo, It hi); arr is the range [lo, hi) as 0..n-1 -> T.
segment_tree_it(n, arr) == build_it(Resize(n), 0, 0, n - 1, arr)

----------------------------------------------------------------------------
\* update_delta(i, d, lo, hi): the lazy push.

\* Mutant of update_delta: a delta pushed to a pending child replaces the
\* child's delta instead of being joined with it.
update_delta_overwrite(w, i, d, lo, hi) ==
  IF w.oob \/ i \notin Slots(w) THEN Fault(w)
  ELSE IF w.pending[i] THEN
    LET v1 == [w.value EXCEPT ![i] = join_value_with_delta(@, d, hi - lo + 1)]
        l  == 2*i + 1
        r  == 2*i + 2
    IN  IF lo # hi THEN
          IF r \notin Slots(w) THEN Fault(w)
          ELSE [w EXCEPT
                  !.value = v1,
                  !.delta = [@ EXCEPT ![l] = d, ![r] = d],
                  !.pending = [@ EXCEPT ![l] = TRUE, ![r] = TRUE, ![i] = FALSE]]
        ELSE [w EXCEPT !.value = v1, !.pending[i] = FALSE]
  ELSE [w EXCEPT !.pending[i] = FALSE]

\* Mutant of update_delta: the arguments of join_deltas are exchanged.
update_delta_swap(w, i, d, lo, hi) ==
  IF w.oob \/ i \notin Slots(w) THEN Fault(w)
  ELSE IF w.pending[i] THEN
    LET v1 == [w.value EXCEPT ![i] = join_value_with_delta(@, d, hi - lo + 1)]
        l  == 2*i + 1
        r  == 2*i + 2
    IN  IF lo # hi THEN
          IF r \notin Slots(w) THEN Fault(w)
          ELSE [w EXCEPT
                  !.value = v1,
                  !.delta = [@ EXCEPT
                     ![l] = IF w.pending[l] THEN join_deltas(d, @) ELSE d,
                     ![r] = IF w.pending[r] THEN join_deltas(d, @) ELSE d],
                  !.pending = [@ EXCEPT ![l] = TRUE, ![r] = TRUE, ![i] = FALSE]]
        ELSE [w EXCEPT !.value = v1, !.pending[i] = FALSE]
  ELSE [w EXCEPT !.pending[i] = FALSE]

\* Mutant of update_delta: the delta is applied to the node and not handed
\* to its children.
update_delta_nopush(w, i, d, lo, hi) ==
  IF w.oob \/ i \notin Slots(w) THEN Fault(w)
  ELSE IF w.pending[i] THEN
    [w EXCEPT !.value[i] = join_value_with_delta(@, d, hi - lo + 1),
              !.pending[i] = FALSE]
  ELSE [w EXCEPT !.pending[i] = FALSE]

\* Mutant of update_delta: the pending flag of the node is not cleared.
update_delta_keep(w, i, d, lo, hi) ==
  IF w.oob \/ i \notin Slots(w) THEN Fault(w)
  ELSE IF w.pending[i] THEN
    LET v1 == [w.value EXCEPT ![i] = join_value_with_delta(@, d, hi - lo + 1)]
        l  == 2*i + 1
        r  == 2*i + 2
    IN  IF lo # hi THEN
          IF r \notin Slots(w) THEN Fault(w)
          ELSE [w EXCEPT
                  !.value = v1,
                  !.delta = [@ EXCEPT
                     ![l] = IF w.pending[l] THEN join_deltas(@, d) ELSE d,
                     ![r] = IF w.pending[r] THEN join_deltas(@, d) ELSE d],
                  !.pending = [@ EXCEPT ![l] = TRUE, ![r] = TRUE]]
        ELSE [w EXCEPT !.value = v1]
  ELSE w

update_delta(w, i, d, lo, hi) ==
  IF w.oob \/ i \notin Slots(w) THEN Fault(w)
  ELSE IF w.pending[i] THEN
    LET v1 == [w.value EXCEPT ![i] = join_value_with_delta(@, d, hi - lo + 1)]
        l  == 2*i + 1
        r  == 2*i + 2
    IN  IF lo # hi THEN
          IF r \notin Slots(w) THEN Fault(w)
          ELSE [w EXCEPT
                  !.value = v1,
                  !.delta = [@ EXCEPT
                     ![l] = IF w.pending[l] THEN join_deltas(@, d) ELSE d,
                     ![r] = IF w.pending[r] THEN join_deltas(@, d) ELSE d],
                  !.pending = [@ EXCEPT ![l] = TRUE, ![r] = TRUE, ![i] = FALSE]]
        ELSE [w EXCEPT !.value = v1, !.pending[i] = FALSE]
  ELSE [w EXCEPT !.pending[i] = FALSE]

----------------------------------------------------------------------------
\* T query(i, lo, hi, tgt_lo, tgt_hi).  The two recursive calls that are the
\* arguments of join_values work on disjoint subtrees, so their order of
\* evaluation does not matter; the left one is taken first.

RECURSIVE query(_, _, _, _, _, _, _)

\* Mutant of query: the pending delta of the node is not resolved first.
query_stale(w, i, lo, hi, tgt_lo, tgt_hi, depth) ==
  IF w.oob \/ i \notin Slots(w) THEN [w |-> Fault(w), ret |-> 0]
  ELSE
    LET w0  == [w EXCEPT !.calls = @ \cup {Call(i, lo, hi, tgt_lo, tgt_hi, depth)}]
        w1  == w0
        mid == CDiv2(lo + hi)
    IN  IF w1.oob THEN [w |-> w1, ret |-> 0]
        ELSE IF lo = tgt_lo /\ hi = tgt_hi THEN [w |-> w1, ret |-> w1.value[i]]
        ELSE IF tgt_lo <= mid /\ mid < tgt_hi THEN
          LET L == query(w1, i*2 + 1, lo, mid, tgt_lo, std_min(tgt_hi, mid),
                         depth + 1)
              R == query(L.w, i*2 + 2, mid + 1, hi, std_max(tgt_lo, mid + 1),
                         tgt_hi, depth + 1)
          IN  [w |-> R.w, ret |-> join_values(L.ret, R.ret)]
        ELSE IF tgt_lo <= mid THEN
          query(w1, i*2 + 1, lo, mid, tgt_lo, std_min(tgt_hi, mid), depth + 1)
        ELSE
          query(w1, i*2 + 2, mid + 1, hi, std_max(tgt_lo, mid + 1), tgt_hi,
                depth + 1)

\* Mutant of query: when both children overlap the target, the result of the
\* right child is dropped.
query_dropright(w, i, lo, hi, tgt_lo, tgt_hi, depth) ==
  IF w.oob \/ i \notin Slots(w) THEN [w |-> Fault(w), ret |-> 0]
  ELSE
    LET w0  == [w EXCEPT !.calls = @ \cup {Call(i, lo, hi, tgt_lo, tgt_hi, depth)}]
        w1  == update_delta(w0, i, w0.delta[i], lo, hi)
        mid == CDiv2(lo + hi)
    IN  IF w1.oob THEN [w |-> w1, ret |-> 0]
        ELSE IF lo = tgt_lo /\ hi = tgt_hi THEN [w |-> w1, ret |-> w1.value[i]]
        ELSE IF tgt_lo <= mid /\ mid < tgt_hi THEN
          LET L == query(w1, i*2 + 1, lo, mid, tgt_lo, std_min(tgt_hi, mid),
                         depth + 1)
              R == query(L.w, i*2 + 2, mid + 1, hi, std_max(tgt_lo, mid + 1),
                         tgt_hi, depth + 1)
          IN  [w |-> R.w, ret |-> L.ret]
        ELSE IF tgt_lo <= mid THEN
          query(w1, i*2 + 1, lo, mid, tgt_lo, std_min(tgt_hi, mid), depth + 1)
        ELSE
          query(w1, i*2 + 2, mid + 1, hi, std_max(tgt_lo, mid + 1), tgt_hi,
                depth + 1)

\* Mutant of query: the target range is passed down without clipping it to
\* the child's span.
query_unclipped(w, i, lo, hi, tgt_lo, tgt_hi, depth) ==
  IF w.oob \/ i \notin Slots(w) THEN [w |-> Fault(w), ret |-> 0]
  ELSE
    LET w0  == [w EXCEPT !.calls = @ \cup {Call(i, lo, hi, tgt_lo, tgt_hi, depth)}]
        w1  == update_delta(w0, i, w0.delta[i], lo, hi)
        mid == CDiv2(lo + hi)
    IN  IF w1.oob THEN [w |-> w1, ret |-> 0]
        ELSE IF lo = tgt_lo /\ hi = tgt_hi THEN [w |-> w1, ret |-> w1.value[i]]
        ELSE IF tgt_lo <= mid /\ mid < tgt_hi THEN
          LET L == query(w1, i*2 + 1, lo, mid, tgt_lo, tgt_hi,
                         depth + 1)
              R == query(L.w, i*2 + 2, mid + 1, hi, tgt_lo,
                         tgt_hi, depth + 1)
          IN  [w |-> R.w, ret |-> join_values(L.ret, R.ret)]
        ELSE IF tgt_lo <= mid THEN
          query(w1, i*2 + 1, lo, mid, tgt_lo, tgt_hi, depth + 1)
        ELSE
          query(w1, i*2 + 2, mid + 1, hi, tgt_lo, tgt_hi,
                depth + 1)

query(w, i, lo, hi, tgt_lo, tgt_hi, depth) ==
  IF w.oob \/ i \notin Slots(w) THEN [w |-> Fault(w), ret |-> 0]
  ELSE
    LET w0  == [w EXCEPT !.calls = @ \cup {Call(i, lo, hi, tgt_lo, tgt_hi, depth)}]
        w1  == update_delta(w0, i, w0.delta[i], lo, hi)
        mid == CDiv2(lo + hi)
    IN  IF w1.oob THEN [w |-> w1, ret |-> 0]
        ELSE IF lo = tgt_lo /\ hi = tgt_hi THEN [w |-> w1, ret |-> w1.value[i]]
        ELSE IF tgt_lo <= mid /\ mid < tgt_hi THEN
          LET L == query(w1, i*2 + 1, lo, mid, tgt_lo, std_min(tgt_hi, mid),
                         depth + 1)
              R == query(L.w, i*2 + 2, mid + 1, hi, std_max(tgt_lo, mid + 1),
                         tgt_hi, depth + 1)
          IN  [w |-> R.w, ret |-> join_values(L.ret, R.ret)]
        ELSE IF tgt_lo <= mid THEN
          query(w1, i*2 + 1, lo, mid, tgt_lo, std_min(tgt_hi, mid), depth + 1)
        ELSE
          query(w1, i*2 + 2, mid + 1, hi, std_max(tgt_lo, mid + 1), tgt_hi,
                depth + 1)

----------------------------------------------------------------------------
\* void update(i, lo, hi, tgt_lo, tgt_hi, d)

RECURSIVE update(_, _, _, _, _, _, _, _)

\* Mutant of update: the delta pending at the node is not resolved on entry.
update_noresolve(w, i, lo, hi, tgt_lo, tgt_hi, d, depth) ==
  IF w.oob \/ i \notin Slots(w) THEN Fault(w)
  ELSE
    LET w1 == [w EXCEPT !.calls = @ \cup {Call(i, lo, hi, tgt_lo, tgt_hi, depth)}]
    IN  IF hi < tgt_lo \/ lo > tgt_hi THEN w1
        ELSE IF tgt_lo <= lo /\ hi <= tgt_hi THEN
          update_delta([w1 EXCEPT !.pending[i] = TRUE], i, d, lo, hi)
        ELSE
          LET w2 == update(w1, 2*i + 1, lo, CDiv2(lo + hi), tgt_lo, tgt_hi, d,
                           depth + 1)
              w3 == update(w2, 2*i + 2, CDiv2(lo + hi) + 1, hi, tgt_lo, tgt_hi,
                           d, depth + 1)
          IN  IF w3.oob \/ (2*i + 2) \notin Slots(w3) THEN Fault(w3)
              ELSE [w3 EXCEPT !.value[i] =
                      join_values(w3.value[2*i + 1], w3.value[2*i + 2])]

\* Mutant of update: a fully covered node that is not a leaf is descended,
\* the delta being applied at the leaves.
update_eager(w, i, lo, hi, tgt_lo, tgt_hi, d, depth) ==
  IF w.oob \/ i \notin Slots(w) THEN Fault(w)
  ELSE
    LET w0 == [w EXCEPT !.calls = @ \cup {Call(i, lo, hi, tgt_lo, tgt_hi, depth)}]
        w1 == update_delta(w0, i, w0.delta[i], lo, hi)
    IN  IF w1.oob THEN w1
        ELSE IF hi < tgt_lo \/ lo > tgt_hi THEN w1
        ELSE IF tgt_lo <= lo /\ hi <= tgt_hi /\ lo = hi THEN
          update_delta([w1 EXCEPT !.pending[i] = TRUE], i, d, lo, hi)
        ELSE
          LET w2 == update(w1, 2*i + 1, lo, CDiv2(lo + hi), tgt_lo, tgt_hi, d,
                           depth + 1)
              w3 == update(w2, 2*i + 2, CDiv2(lo + hi) + 1, hi, tgt_lo, tgt_hi,
                           d, depth + 1)
          IN  IF w3.oob \/ (2*i + 2) \notin Slots(w3) THEN Fault(w3)
              ELSE [w3 EXCEPT !.value[i] =
                      join_values(w3.value[2*i + 1], w3.value[2*i + 2])]

\* Mutant of update: the value of a partially covered node is not
\* recomputed from its children.
update_nomerge(w, i, lo, hi, tgt_lo, tgt_hi, d, depth) ==
  IF w.oob \/ i \notin Slots(w) THEN Fault(w)
  ELSE
    LET w0 == [w EXCEPT !.calls = @ \cup {Call(i, lo, hi, tgt_lo, tgt_hi, depth)}]
        w1 == update_delta(w0, i, w0.delta[i], lo, hi)
    IN  IF w1.oob THEN w1
        ELSE IF hi < tgt_lo \/ lo > tgt_hi THEN w1
        ELSE IF tgt_lo <= lo /\ hi <= tgt_hi THEN
          update_delta([w1 EXCEPT !.pending[i] = TRUE], i, d, lo, hi)
        ELSE
          LET w2 == update(w1, 2*i + 1, lo, CDiv2(lo + hi), tgt_lo, tgt_hi, d,
                           depth + 1)
              w3 == update(w2, 2*i + 2, CDiv2(lo + hi) + 1, hi, tgt_lo, tgt_hi,
                           d, depth + 1)
          IN  IF w3.oob \/ (2*i + 2) \notin Slots(w3) THEN Fault(w3)
              ELSE w3

\* Mutant of update: a node counts as fully covered as soon as the target
\* starts at or before its span.
update_overreach(w, i, lo, hi, tgt_lo, tgt_hi, d, depth) ==
  IF w.oob \/ i \notin Slots(w) THEN Fault(w)
  ELSE
    LET w0 == [w EXCEPT !.calls = @ \cup {Call(i, lo, hi, tgt_lo, tgt_hi, depth)}]
        w1 == update_delta(w0, i, w0.delta[i], lo, hi)
    IN  IF w1.oob THEN w1
        ELSE IF hi < tgt_lo \/ lo > tgt_hi THEN w1
        ELSE IF tgt_lo <= lo THEN
          update_delta([w1 EXCEPT !.pending[i] = TRUE], i, d, lo, hi)
        ELSE
          LET w2 == update(w1, 2*i + 1, lo, CDiv2(lo + hi), tgt_lo, tgt_hi, d,
                           depth + 1)
              w3 == update(w2, 2*i + 2, CDiv2(lo + hi) + 1, hi, tgt_lo, tgt_hi,
                           d, depth + 1)
          IN  IF w3.oob \/ (2*i + 2) \notin Slots(w3) THEN Fault(w3)
              ELSE [w3 EXCEPT !.value[i] =
                      join_values(w3.value[2*i + 1], w3.value[2*i + 2])]

update(w, i, lo, hi, tgt_lo, tgt_hi, d, depth) ==
  IF w.oob \/ i \notin Slots(w) THEN Fault(w)
  ELSE
    LET w0 == [w EXCEPT !.calls = @ \cup {Call(i, lo, hi, tgt_lo, tgt_hi, depth)}]
        w1 == update_delta(w0, i, w0.delta[i], lo, hi)
    IN  IF w1.oob THEN w1
        ELSE IF hi < tgt_lo \/ lo > tgt_hi THEN w1
        ELSE IF tgt_lo <= lo /\ hi <= tgt_hi THEN
          update_delta([w1 EXCEPT !.pending[i] = TRUE], i, d, lo, hi)
        ELSE
          LET w2 == update(w1, 2*i + 1, lo, CDiv2(lo + hi), tgt_lo, tgt_hi, d,
                           depth + 1)
              w3 == update(w2, 2*i + 2, CDiv2(lo + hi) + 1, hi, tgt_lo, tgt_hi,
                           d, depth + 1)
          IN  IF w3.oob \/ (2*i + 2) \notin Slots(w3) THEN Fault(w3)
              ELSE [w3 EXCEPT !.value[i] =
                      join_values(w3.value[2*i + 1], w3.value[2*i + 2])]

----------------------------------------------------------------------------
\* The public member functions, on a tree record t = [len, value, delta,
\* pending].

Work(t) ==
  [value |-> t.value, delta |-> t.delta, pending |-> t.pending,
   oob |-> FALSE, calls |-> {}]

Tree(n, w) ==
  [len |-> n, value |-> w.value, delta |-> w.delta, pending |-> w.pending]

\* T query(int lo, int hi)
query_pub(t, lo, hi) == query(Work(t), 0, 0, t.len - 1, lo, hi, 1)

\* T at(int i)
at(t, i) == query_pub(t, i, i)

\* void update(int lo, int hi, const T &d)
update_pub(t, lo, hi, d) == update(Work(t), 0, 0, t.len - 1, lo, hi, d, 1)

\* void update(int i, const T &d)
update_point(t, i, d) == update(Work(t), 0, 0, t.len - 1, i, i, d, 1)

\* int size() const
size(t) == t.len

----------------------------------------------------------------------------
\* The current structure, and ghost helpers.

tree == [len |-> len, value |-> value, delta |-> delta, pending |-> pending]

\* The documented effect of update(lo, hi, d) on a plain array.
RefUpdate(a, lo, hi, d) ==
  [k \in DOMAIN a |->
     IF lo <= k /\ k <= hi THEN join_value_with_delta(a[k], d, 1) ELSE a[k]]

\* The outcomes of a call that ran into undefined behaviour.
UBOutcomes == {"crash", "garbage"}

Store(n, w) ==
  /\ len' = n
  /\ value' = w.value
  /\ delta' = w.delta
  /\ pending' = w.pending
  /\ outcome' \in (IF w.oob THEN UBOutcomes ELSE {"ok"})

----------------------------------------------------------------------------
\* Initial states: the structure right after one of the two constructors.

MainArr == [k \in 0..4 |-> CASE k = 0 -> 6 [] k = 1 -> -2 [] k = 2 -> 1
                             [] k = 3 -> 8 [] k = 4 -> 10]

Constructed(o, n, w, a, p) ==
  /\ ops = o
  /\ len = n
  /\ value = w.value
  /\ delta = w.delta
  /\ pending = w.pending
  /\ outcome \in (IF w.oob THEN UBOutcomes ELSE {"ok"})
  /\ A = a
  /\ nupd = 0
  /\ last = "construct"
  /\ pc = p

\* The two alternating sequences of length n over Vals.
ZigZag ==
  [n \in 0..MaxN |->
     {[k \in 0..(n - 1) |-> IF k % 2 = 0 THEN 1 ELSE 4],
      [k \in 0..(n - 1) |-> IF k % 2 = 0 THEN 4 ELSE 1]}]

\* Every sequence of length n over BuildVals.
AllSeqs == [n \in 0..MaxN |-> [0..(n - 1) -> BuildVals]]

InitFill(Sizes, V) ==
  \E o \in OpSets, n \in Sizes, v \in V :
    /\ ops = o
    /\ Constructed(o, n, segment_tree(n, v), [k \in 0..(n - 1) |-> v], 0)

InitSeq(Sizes, Seqs) ==
  \E o \in OpSets, n \in Sizes :
    \E S \in Seqs[n] :
      /\ ops = o
      /\ Constructed(o, n, segment_tree_it(n, S), S, 0)

\* main(): int arr[5] = {6, -2, 1, 8, 10}; segment_tree<int> t(arr, arr + 5);
InitMain ==
  /\ ops = "minset"
  /\ Constructed("minset", 5, segment_tree_it(5, MainArr), MainArr, 1)

Init == InitFill(1..MaxN, Vals) \/ InitSeq(1..MaxN, ZigZag) \/ InitMain

----------------------------------------------------------------------------
\* The public calls with valid arguments.

Live == pc = 0 /\ outcome = "ok"

DoUpdate(lo, hi, d, w) ==
  /\ Store(len, w)
  /\ A' = RefUpdate(A, lo, hi, d)
  /\ nupd' = nupd + 1
  /\ last' = "update"
  /\ UNCHANGED ops

DoQuery(r) ==
  /\ Store(len, r.w)
  /\ last' = "query"
  /\ UNCHANGED <<ops, A, nupd>>

UpdateRange ==
  /\ Live /\ (nupd + 1) * len <= MaxCells
  /\ \E lo \in 0..(len - 1), hi \in 0..(len - 1), d \in Deltas :
       /\ lo <= hi
       /\ DoUpdate(lo, hi, d, update_pub(tree, lo, hi, d))
  /\ UNCHANGED pc

UpdatePoint ==
  /\ Live /\ (nupd + 1) * len <= MaxCells
  /\ \E i \in 0..(len - 1), d \in Deltas :
       DoUpdate(i, i, d, update_point(tree, i, d))
  /\ UNCHANGED pc

Query ==
  /\ Live
  /\ \E lo \in 0..(len - 1), hi \in 0..(len - 1) :
       /\ lo <= hi
       /\ DoQuery(query_pub(tree, lo, hi))
  /\ UNCHANGED pc

At ==
  /\ Live
  /\ \E i \in 0..(len - 1) : DoQuery(at(tree, i))
  /\ UNCHANGED pc

----------------------------------------------------------------------------
\* main(): the calls of the example, in program order.

Step(op, lo, hi, d) == [op |-> op, lo |-> lo, hi |-> hi, d |-> d]

MainScript ==
  << Step("update_point", 2, 2, 4),
     Step("at", 0, 0, 0), Step("at", 1, 1, 0), Step("at", 2, 2, 0),
     Step("at", 3, 3, 0), Step("at", 4, 4, 0),
     Step("query", 0, 3, 0),
     Step("update_range", 0, 4, 5),
     Step("update_point", 3, 3, 2),
     Step("update_point", 3, 3, 1),
     Step("at", 0, 0, 0), Step("at", 1, 1, 0), Step("at", 2, 2, 0),
     Step("at", 3, 3, 0), Step("at", 4, 4, 0),
     Step("query", 0, 3, 0) >>

MainStep ==
  /\ pc \in 1..Len(MainScript)
  /\ outcome = "ok"
  /\ LET s == MainScript[pc] IN
       CASE s.op = "update_point" ->
              DoUpdate(s.lo, s.hi, s.d, update_point(tree, s.lo, s.d))
         [] s.op = "update_range" ->
              DoUpdate(s.lo, s.hi, s.d, update_pub(tree, s.lo, s.hi, s.d))
         [] s.op = "at" ->
              DoQuery(at(tree, s.lo))
         [] s.op = "query" ->
              DoQuery(query_pub(tree, s.lo, s.hi))
  /\ pc' = pc + 1

Next == UpdateRange \/ UpdatePoint \/ Query \/ At \/ MainStep

Spec == Init /\ [][Next]_vars

\* Construction runs: every initial sequence over BuildVals, then reads.
InitBuild == InitFill(1..MaxN, BuildVals) \/ InitSeq(1..MaxN, AllSeqs)

NextBuild == Query \/ At

SpecBuild == InitBuild /\ [][NextBuild]_vars

----------------------------------------------------------------------------
\* What the claims speak about.

Idx == 0..(len - 1)

Ranges == {p \in Idx \X Idx : p[1] <= p[2]}

\* The fold of join_values over a[lo..hi], left to right.
RECURSIVE Fold(_, _, _)
Fold(a, lo, hi) ==
  IF lo = hi THEN a[lo] ELSE join_values(Fold(a, lo, hi - 1), a[hi])

\* The structure a call leaves behind.
After(w) == Tree(len, w)

\* The array read back through at().
Content(t) == [k \in 0..(t.len - 1) |-> at(t, k).ret]

\* Every query result of t, the singleton ranges (at) included.
AllQueries(t) ==
  [q \in {p \in (0..(t.len - 1)) \X (0..(t.len - 1)) : p[1] <= p[2]} |->
     query_pub(t, q[1], q[2]).ret]

\* The nodes of the tree over [lo, hi] rooted at i, as <<i, lo, hi>>.
RECURSIVE NodeSet(_, _, _)
NodeSet(i, lo, hi) ==
  IF lo = hi THEN {<<i, lo, hi>>}
  ELSE {<<i, lo, hi>>} \cup NodeSet(i*2 + 1, lo, CDiv2(lo + hi))
                       \cup NodeSet(i*2 + 2, CDiv2(lo + hi) + 1, hi)

Nodes == NodeSet(0, 0, len - 1)

SomePending == \E i \in DOMAIN pending : pending[i]

----------------------------------------------------------------------------
\* C1: in every state reached by valid calls, every query(lo, hi) with
\* 0 <= lo <= hi < n returns the fold of join_values over A[lo..hi], A being
\* the plain array on which each update(lo, hi, d) replaced A[k] by
\* join_value_with_delta(A[k], d, 1) for k in [lo, hi]; for (min, set) and
\* for (sum, increment).
C1_QueryIsFold ==
  \A p \in Ranges :
    LET r == query_pub(tree, p[1], p[2])
    IN  ~r.w.oob /\ r.ret = Fold(A, p[1], p[2])

\* C1 witness: a three-element sum tree after two updates and a query, with
\* a delta still deferred and a content that is not constant.
C1_Witness ==
  /\ ops = "suminc" /\ len = 3 /\ nupd = 2 /\ last = "query"
  /\ SomePending
  /\ A[0] # A[1] /\ A[1] # A[2] /\ A # [k \in 0..2 |-> IF k = 1 THEN 4 ELSE 1]
  /\ A # [k \in 0..2 |-> IF k = 1 THEN 1 ELSE 4]
  /\ query_pub(tree, 0, 2).ret = A[0] + A[1] + A[2]

\* C2: at(i) equals query(i, i) and equals the reference value A[i], in
\* every reachable state, whether or not queries have pushed the deltas
\* deferred at the ancestors of leaf i.
C2_AtReflectsUpdates ==
  \A i \in Idx :
    /\ at(tree, i).ret = A[i]
    /\ at(tree, i).ret = query_pub(tree, i, i).ret

\* C2 witness: node 1 (span [0,1]) of a three-element tree holds a deferred
\* delta, the leaf of index 0 (node 3) is stale, and at(0) is up to date.
C2_Witness ==
  /\ len = 3 /\ last = "update" /\ pending[1] /\ ~pending[3]
  /\ value[3] # A[0]
  /\ at(tree, 0).ret = A[0]

\* C4: right after either constructor at(i) is the i-th initial value (the
\* fill value v, or S[i]), every internal node holds join_values of its two
\* children, and no pending flag is set.
C4_ConstructionFidelity ==
  last = "construct" =>
    /\ \A i \in Idx : at(tree, i).ret = A[i]
    /\ \A nd \in Nodes :
         nd[2] # nd[3] =>
           value[nd[1]] = join_values(value[nd[1]*2 + 1], value[nd[1]*2 + 2])
    /\ \A i \in DOMAIN pending : ~pending[i]

\* C4 witness: a freshly built three-element tree over a non-constant
\* sequence.
C4_Witness ==
  /\ last = "construct" /\ len = 3 /\ pc = 0
  /\ A[0] # A[1] /\ A[1] # A[2] /\ A[0] # A[2]
  /\ Content(tree) = A

\* C6: a valid update(lo, hi, d) leaves at(j) as it was for every j outside
\* [lo, hi]; update(i, d) changes at(i) only; the example's update(2, 4) on
\* [6, -2, 1, 8, 10] gives 6 -2 4 8 10.
C6_UpdateFrame ==
  /\ \A p \in Ranges, d \in Deltas :
       LET t2 == After(update_pub(tree, p[1], p[2], d))
       IN  \A j \in Idx : (j < p[1] \/ p[2] < j) => at(t2, j).ret = at(tree, j).ret
  /\ \A i \in Idx, d \in Deltas :
       LET t2 == After(update_point(tree, i, d))
       IN  \A j \in Idx : j # i => at(t2, j).ret = at(tree, j).ret
  /\ pc = 2 => Content(tree) = [MainArr EXCEPT ![2] = 4]

\* C6 witness: main() after its first call, update(2, 4).
C6_Witness ==
  /\ pc = 2 /\ last = "update"
  /\ Content(tree) = [MainArr EXCEPT ![2] = 4]

\* C7: a valid query(lo, hi) or at(i) may rewrite value, delta and pending
\* but leaves every at(j) and every query(a, b) result as it was.
C7_QueryReadOnly ==
  LET before == AllQueries(tree)
  IN  \A p \in Ranges :
        LET t2 == After(query_pub(tree, p[1], p[2]).w)
        IN  /\ \A j \in Idx : at(t2, j).ret = before[<<j, j>>]
            /\ AllQueries(t2) = before

\* C7 witness: after a query, in a state where a further query still
\* rewrites the node fields.
C7_Witness ==
  /\ last = "query" /\ len = 3
  /\ \E p \in Ranges : After(query_pub(tree, p[1], p[2]).w) # tree

\* C8: for 0 <= lo <= mid < hi < n, query(lo, hi) equals
\* join_values(query(lo, mid), query(mid+1, hi)), the three queries being
\* made one after another on the same structure.
C8_QuerySplit ==
  \A p \in Ranges, mid \in Idx :
    (p[1] <= mid /\ mid < p[2]) =>
      LET q1 == query_pub(tree, p[1], p[2])
          q2 == query_pub(After(q1.w), p[1], mid)
          q3 == query_pub(After(q2.w), mid + 1, p[2])
          s2 == query_pub(tree, p[1], mid)
          s3 == query_pub(After(s2.w), mid + 1, p[2])
          s1 == query_pub(After(s3.w), p[1], p[2])
      IN  /\ q1.ret = join_values(q2.ret, q3.ret)
          /\ s1.ret = join_values(s2.ret, s3.ret)

\* C8 witness: a three-element tree with deferred deltas whose two halves
\* have different aggregates.
C8_Witness ==
  /\ len = 3 /\ nupd = 2 /\ SomePending
  /\ query_pub(tree, 0, 1).ret # query_pub(tree, 2, 2).ret
  /\ query_pub(tree, 0, 2).ret =
       join_values(query_pub(tree, 0, 1).ret, query_pub(tree, 2, 2).ret)

\* The permutations of a finite set, as sequences.
Perms(S) ==
  {f \in [1..Cardinality(S) -> S] :
     \A a, b \in 1..Cardinality(S) : a # b => f[a] # f[b]}

\* update(f[1], d); ...; update(f[k], d) made on t.
RECURSIVE PointUpdates(_, _, _, _)
PointUpdates(t, f, k, d) ==
  IF k = 0 THEN t
  ELSE Tree(t.len, update_point(PointUpdates(t, f, k - 1, d), f[k], d))

\* C9: from any reachable state, update(lo, hi, d) and the point updates
\* update(i, d) for the i of [lo, hi], in any order, give structures with
\* the same at(i) for every i and the same query(a, b) for every valid
\* range; for (min, set) and for (sum, increment).
C9_RangePointEquivalence ==
  \A p \in Ranges, d \in Deltas :
    LET r1 == AllQueries(After(update_pub(tree, p[1], p[2], d)))
    IN  \A f \in Perms(p[1]..p[2]) :
          AllQueries(PointUpdates(tree, f, p[2] - p[1] + 1, d)) = r1

\* C9 witness: a three-element sum tree with deferred deltas on which the
\* range update over all of [0, 2] changes the root aggregate by 3*d.
C9_Witness ==
  /\ ops = "suminc" /\ len = 3 /\ last = "update" /\ SomePending
  /\ \E d \in Deltas :
       query_pub(After(update_pub(tree, 0, 2, d)), 0, 2).ret
         = query_pub(tree, 0, 2).ret + 3 * d

\* Smallest k with 2^k >= n.
RECURSIVE CeilLog2(_)
CeilLog2(n) == IF n <= 1 THEN 0 ELSE 1 + CeilLog2((n + 1) \div 2)

Height(n) == CeilLog2(n) + 1

\* C10: for valid arguments query, at and update finish without an access
\* outside the storage; every recursive query call has
\* lo <= tgt_lo <= tgt_hi <= hi, no query or update call is made on an
\* empty span, and the recursion depth is at most ceil(log2 n) + 1.
C10_BoundedRecursion ==
  /\ outcome = "ok"
  /\ \A p \in Ranges :
       LET q == query_pub(tree, p[1], p[2]).w
       IN  /\ ~q.oob
           /\ \A c \in q.calls :
                /\ c.lo <= c.tgt_lo /\ c.tgt_lo <= c.tgt_hi /\ c.tgt_hi <= c.hi
                /\ c.depth <= Height(len)
  /\ \A p \in Ranges, d \in Deltas :
       LET u == update_pub(tree, p[1], p[2], d)
       IN  /\ ~u.oob
           /\ \A c \in u.calls : c.lo <= c.hi /\ c.depth <= Height(len)

\* C10 witness: after a query on a three-element tree, where at(0) descends
\* to the deepest level, ceil(log2 3) + 1 = 3.
C10_Witness ==
  /\ len = 3 /\ last = "query" /\ outcome = "ok"
  /\ \E c \in at(tree, 0).w.calls : c.depth = Height(len) /\ c.lo = c.hi

----------------------------------------------------------------------------
\* The calls as the code accepts them: any int arguments, any size n >= 0.
\* Nothing in the source validates an argument.

BadRanges == {p \in (-1..len) \X (-1..len) : p \notin Ranges}

BadUpdate ==
  /\ Live /\ (nupd + 1) * len <= MaxCells
  /\ \E p \in BadRanges, d \in Deltas :
       /\ Store(len, update_pub(tree, p[1], p[2], d))
       /\ nupd' = nupd + 1
       /\ last' = "bad_update"
  /\ UNCHANGED <<ops, A, pc>>

BadUpdatePoint ==
  /\ Live /\ (nupd + 1) * len <= MaxCells
  /\ \E i \in {-1, len}, d \in Deltas :
       /\ Store(len, update_point(tree, i, d))
       /\ nupd' = nupd + 1
       /\ last' = "bad_update"
  /\ UNCHANGED <<ops, A, pc>>

BadQuery ==
  /\ Live
  /\ \E p \in BadRanges :
       /\ Store(len, query_pub(tree, p[1], p[2]).w)
       /\ last' = "bad_query"
  /\ UNCHANGED <<ops, A, nupd, pc>>

BadAt ==
  /\ Live
  /\ \E i \in {-1, len} :
       /\ Store(len, at(tree, i).w)
       /\ last' = "bad_query"
  /\ UNCHANGED <<ops, A, nupd, pc>>

InitUnchecked ==
  InitFill(0..MaxN, Vals) \/ InitSeq(0..MaxN, ZigZag) \/ InitMain

NextUnchecked ==
  Next \/ BadUpdate \/ BadUpdatePoint \/ BadQuery \/ BadAt

SpecUnchecked == InitUnchecked /\ [][NextUnchecked]_vars

\* C3: every call with an index or endpoint outside [0, n-1], or with
\* lo > hi, ends in OutOfRange and leaves value, delta and pending of every
\* node as they were.
C3_RejectedUnchanged ==
  [][last' \in {"bad_update", "bad_query"} =>
       (outcome' = "OutOfRange" /\ UNCHANGED <<value, delta, pending>>)]_vars

\* C5: construction with n = 0 (either constructor) finishes, gives a
\* structure of size 0 and touches no slot outside the 4*n slots.
C5_EmptyConstruction ==
  (last = "construct" /\ len = 0) => (outcome = "ok" /\ size(tree) = 0)

----------------------------------------------------------------------------
\* The two worked scenarios: (min, set) on the array of main(), and
\* (sum, increment) on four ones.  Reads may be made between any two steps.

Ones == [k \in 0..3 |-> 1]

SetScenario ==
  << Step("update_range", 2, 4, 4),
     Step("query", 0, 3, 0),
     Step("update_range", 0, 4, 5),
     Step("update_point", 3, 3, 2),
     Step("update_point", 3, 3, 1),
     Step("query", 0, 3, 0) >>

IncScenario ==
  << Step("update_range", 0, 3, 2),
     Step("query", 0, 3, 0),
     Step("at", 1, 1, 0) >>

Scenario == IF ops = "minset" THEN SetScenario ELSE IncScenario

InitScenario ==
  \/ /\ ops = "minset"
     /\ Constructed("minset", 5, segment_tree_it(5, MainArr), MainArr, 1)
  \/ /\ ops = "suminc"
     /\ Constructed("suminc", 4, segment_tree_it(4, Ones), Ones, 1)
  \/ /\ ops = "suminc"
     /\ Constructed("suminc", 4, segment_tree(4, 1), Ones, 1)

Run(s) ==
  CASE s.op = "update_point" ->
         DoUpdate(s.lo, s.hi, s.d, update_point(tree, s.lo, s.d))
    [] s.op = "update_range" ->
         DoUpdate(s.lo, s.hi, s.d, update_pub(tree, s.lo, s.hi, s.d))
    [] s.op = "at" ->
         DoQuery(at(tree, s.lo))
    [] s.op = "query" ->
         DoQuery(query_pub(tree, s.lo, s.hi))

ScenarioStep ==
  /\ pc \in 1..Len(Scenario)
  /\ outcome = "ok"
  /\ Run(Scenario[pc])
  /\ pc' = pc + 1

ScenarioRead ==
  /\ pc >= 1
  /\ outcome = "ok"
  /\ \E p \in Ranges : DoQuery(query_pub(tree, p[1], p[2]))
  /\ UNCHANGED pc

NextScenario == ScenarioStep \/ ScenarioRead

SpecScenario == InitScenario /\ [][NextScenario]_vars

\* C11: with (min, set), from [6, -2, 1, 8, 10]: after update(2, 4, 4) the
\* content is [6, -2, 4, 4, 4] and query(0, 3) is -2; after update(0, 4, 5)
\* every value is 5; after update(3, 2) and update(3, 1) the content is
\* [5, 5, 5, 1, 5] and query(0, 3) is 1.
C11_SetScenario ==
  ops = "minset" =>
    /\ pc \in {2, 3} =>
         /\ Content(tree) = [k \in 0..4 |-> IF k >= 2 THEN 4 ELSE MainArr[k]]
         /\ query_pub(tree, 0, 3).ret = -2
    /\ pc = 4 => Content(tree) = [k \in 0..4 |-> 5]
    /\ pc \in {6, 7} =>
         /\ Content(tree) = [k \in 0..4 |-> IF k = 3 THEN 1 ELSE 5]
         /\ query_pub(tree, 0, 3).ret = 1

\* C11 witness: the end of the (min, set) scenario, the last query made.
C11_Witness ==
  /\ ops = "minset" /\ pc = 7 /\ last = "query" /\ nupd = 4
  /\ Content(tree) = [k \in 0..4 |-> IF k = 3 THEN 1 ELSE 5]
  /\ query_pub(tree, 0, 3).ret = 1

\* C12: with (sum, increment), from [1, 1, 1, 1]: after update(0, 3, 2),
\* query(0, 3) is 12 and at(1) is 3.
C12_IncScenario ==
  (ops = "suminc" /\ pc >= 2) =>
    /\ query_pub(tree, 0, 3).ret = 12
    /\ at(tree, 1).ret = 3

\* C12 witness: the (sum, increment) scenario right after update(0, 3, 2),
\* the delta still deferred at the children of the root.
C12_Witness ==
  /\ ops = "suminc" /\ pc = 2 /\ last = "update" /\ SomePending
  /\ query_pub(tree, 0, 3).ret = 12
  /\ at(tree, 1).ret = 3

----------------------------------------------------------------------------
\* The runs of the operators as coded: minimum and "set".

InitSet == Init /\ ops = "minset"

SpecSet == InitSet /\ [][Next]_vars

\* C13: with the "set" delta, in every reachable state and for every valid
\* i and d, update(i, d) made twice in a row gives the same at(i), the same
\* at(j) for every j and the same query results as update(i, d) made once.
C13_SetIdempotent ==
  \A i \in Idx, d \in Deltas :
    LET t1 == After(update_point(tree, i, d))
        t2 == After(update_point(t1, i, d))
    IN  /\ at(t2, i).ret = at(t1, i).ret
        /\ \A j \in Idx : at(t2, j).ret = at(t1, j).ret
        /\ AllQueries(t2) = AllQueries(t1)

\* C13 witness: a three-element tree with a deferred delta on which some
\* update(i, d) changes at(i), and changes nothing more when repeated.
C13_Witness ==
  /\ ops = "minset" /\ len = 3 /\ last = "update" /\ SomePending
  /\ \E i \in Idx, d \in Deltas :
       LET t1 == After(update_point(tree, i, d))
           t2 == After(update_point(t1, i, d))
       IN  /\ at(t1, i).ret # at(tree, i).ret
           /\ at(t1, i).ret = d
           /\ AllQueries(t2) = AllQueries(t1)

----------------------------------------------------------------------------
\* The free runs alone (no scripted example), for the claims about the
\* fields of the nodes.

InitFree == InitFill(1..MaxN, Vals) \/ InitSeq(1..MaxN, ZigZag)

NextFree == UpdateRange \/ UpdatePoint \/ Query \/ At

SpecFree == InitFree /\ [][NextFree]_vars

\* C14: update_delta on a pending node i of span [lo, hi] with delta d sets
\* value[i] to join_value_with_delta(value[i], d, hi-lo+1); if lo # hi each
\* child c gets delta[c] = join_deltas(delta[c], d) (its own delta first,
\* d second) if it was pending and d otherwise, and becomes pending;
\* pending[i] is cleared and no other field is written.  On a node that is
\* not pending no field of any node changes; on a leaf no child slot is
\* written.  Checked for d = delta[i] (the resolve on entry) and, with
\* pending[i] just set, for the d of an update (the full-cover branch).
C14_LazyPush ==
  \A nd \in Nodes, force \in BOOLEAN :
    LET i  == nd[1]
        lo == nd[2]
        hi == nd[3]
        w0 == IF force THEN [Work(tree) EXCEPT !.pending[i] = TRUE]
              ELSE Work(tree)
        kids == IF w0.pending[i] /\ lo # hi THEN {2*i + 1, 2*i + 2} ELSE {}
    IN  \A d \in Deltas \cup {delta[i]} :
          LET w1 == update_delta(w0, i, d, lo, hi)
          IN  /\ ~w1.oob
              /\ ~w1.pending[i]
              /\ w0.pending[i] =>
                   w1.value[i] =
                     join_value_with_delta(w0.value[i], d, hi - lo + 1)
              /\ ~w0.pending[i] =>
                   /\ w1.value = w0.value
                   /\ w1.delta = w0.delta
                   /\ w1.pending = w0.pending
              /\ \A c \in kids :
                   /\ w1.pending[c]
                   /\ w1.delta[c] = IF w0.pending[c]
                                    THEN join_deltas(w0.delta[c], d) ELSE d
              /\ \A j \in Slots(w0) :
                   /\ j # i => w1.value[j] = w0.value[j]
                   /\ j \notin kids => w1.delta[j] = w0.delta[j]
                   /\ j \notin kids \cup {i} => w1.pending[j] = w0.pending[j]

\* C14 witness: node 1 (span [0,1]) of a three-element tree is pending and
\* so is its child, node 3, with a different delta; resolving node 1 joins
\* the two deltas at node 3.
C14_Witness ==
  /\ len = 3 /\ pending[1] /\ pending[3] /\ delta[1] # delta[3]
  /\ LET w1 == update_delta(Work(tree), 1, delta[1], 0, 1)
     IN  /\ w1.delta[3] = join_deltas(delta[3], delta[1])
         /\ w1.pending[4] /\ ~w1.pending[1]

\* The invocations of the recursive update made by update(tgt_lo, tgt_hi, d)
\* below node i, each with the fields on entry (pre) and on return (post).
RECURSIVE UpdateVisits(_, _, _, _, _, _, _)
UpdateVisits(w, i, lo, hi, tgt_lo, tgt_hi, d) ==
  LET here == [i |-> i, lo |-> lo, hi |-> hi, pre |-> w,
               post |-> update(w, i, lo, hi, tgt_lo, tgt_hi, d, 1)]
      mid  == CDiv2(lo + hi)
  IN  IF (hi < tgt_lo \/ lo > tgt_hi) \/ (tgt_lo <= lo /\ hi <= tgt_hi)
      THEN {here}
      ELSE LET w1 == update_delta(w, i, w.delta[i], lo, hi)
               w2 == update(w1, 2*i + 1, lo, mid, tgt_lo, tgt_hi, d, 1)
           IN  {here}
                 \cup UpdateVisits(w1, 2*i + 1, lo, mid, tgt_lo, tgt_hi, d)
                 \cup UpdateVisits(w2, 2*i + 2, mid + 1, hi, tgt_lo, tgt_hi, d)

Visits(lo, hi, d) == UpdateVisits(Work(tree), 0, 0, len - 1, lo, hi, d)

Span(c) == <<c.i, c.lo, c.hi>>

\* C16: when update(lo, hi, d) reaches a node i whose span lies within
\* [lo, hi], the resolve on entry leaves i not pending and d is applied to
\* the resolved value[i]; the invocation makes no recursive call and writes
\* nothing but value[i], pending[i] and the delta and pending slots of the
\* two children of i (none of them when i is a leaf).
C16_CoveredNotDescended ==
  \A p \in Ranges, d \in Deltas :
    LET vs == Visits(p[1], p[2], d)
    IN  /\ {Span(v) : v \in vs}
             = {Span(c) : c \in update_pub(tree, p[1], p[2], d).calls}
        /\ \A v \in vs :
             (p[1] <= v.lo /\ v.hi <= p[2]) =>
               LET i == v.i
                   r == update_delta(v.pre, i, v.pre.delta[i], v.lo, v.hi)
                   kids == IF v.lo # v.hi THEN {2*i + 1, 2*i + 2} ELSE {}
               IN  /\ ~r.pending[i]
                   /\ ~v.post.pending[i]
                   /\ v.post.value[i] =
                        join_value_with_delta(r.value[i], d, v.hi - v.lo + 1)
                   /\ Cardinality(v.post.calls \ v.pre.calls) = 1
                   /\ \A j \in Slots(v.pre) :
                        /\ j # i => v.post.value[j] = v.pre.value[j]
                        /\ j \notin kids => v.post.delta[j] = v.pre.delta[j]
                        /\ j \notin kids \cup {i} =>
                             v.post.pending[j] = v.pre.pending[j]

\* C16 witness: node 1 (span [0,1]) of a three-element tree carries a
\* deferred delta, its children too; update(0, 1, d) resolves node 1, applies
\* d to its value and leaves the values of the two leaves below as they were.
C16_Witness ==
  /\ len = 3 /\ last = "update" /\ pending[1] /\ pending[3]
  /\ \E d \in Deltas :
       LET u == update_pub(tree, 0, 1, d)
       IN  /\ u.value[1] =
                join_value_with_delta(
                  join_value_with_delta(value[1], delta[1], 2), d, 2)
           /\ u.value[3] = value[3] /\ u.value[4] = value[4]
           /\ u.pending[3] /\ u.pending[4] /\ ~u.pending[1]
           /\ at(After(u), 0).ret # value[3]

\* C17: when the recursive update returns from a node whose span overlaps
\* [lo, hi] without lying within it, both children of the node are not
\* pending, and value[i] is join_values of the two children's values, which
\* is the fold of join_values over the updated reference values of the span.
C17_MergeUp ==
  \A p \in Ranges, d \in Deltas :
    \A v \in Visits(p[1], p[2], d) :
      (~(v.hi < p[1] \/ v.lo > p[2]) /\ ~(p[1] <= v.lo /\ v.hi <= p[2])) =>
        LET l == 2 * v.i + 1
            r == 2 * v.i + 2
        IN  /\ ~v.post.pending[l] /\ ~v.post.pending[r]
            /\ v.post.value[v.i] =
                 join_values(v.post.value[l], v.post.value[r])
            /\ v.post.value[v.i] =
                 Fold(RefUpdate(A, p[1], p[2], d), v.lo, v.hi)

\* C17 witness: node 1 (span [0,1]) of a three-element tree is pending with
\* a pending child; update(1, 1, d) overlaps it partly, resolves both leaves
\* (index 0 lies outside the target) and recomputes value[1].
C17_Witness ==
  /\ len = 3 /\ last = "update" /\ pending[1] /\ pending[3] /\ pending[4]
  /\ \E d \in Deltas :
       LET u == update_pub(tree, 1, 1, d)
       IN  /\ ~u.pending[3] /\ ~u.pending[4]
           /\ u.value[1] = join_values(u.value[3], u.value[4])
           /\ u.value[1] # value[1]
           /\ u.value[3] = A[0]

\* The value of node c of span [lo, hi] with its own deferred delta applied.
Eff(c, lo, hi) ==
  IF pending[c] THEN join_value_with_delta(value[c], delta[c], hi - lo + 1)
  ELSE value[c]

\* The value of index k read off the fields: the value of its leaf, with
\* the deferred deltas of the leaf and of its ancestors below node i applied
\* from the leaf upward.
RECURSIVE Logical(_, _, _, _)
Logical(i, lo, hi, k) ==
  LET mid   == CDiv2(lo + hi)
      below == IF lo = hi THEN value[i]
               ELSE IF k <= mid THEN Logical(2*i + 1, lo, mid, k)
               ELSE Logical(2*i + 2, mid + 1, hi, k)
  IN  IF pending[i] THEN join_value_with_delta(below, delta[i], 1) ELSE below

\* C19: after construction and after every valid query, at and update, the
\* root is not pending; every internal node i that is not pending has
\* value[i] = join_values(Eff(2i+1), Eff(2i+2)); and the value of index k
\* read off the fields from the leaf upward is the reference value A[k],
\* which is what at(k) returns.
C19_Representation ==
  /\ ~pending[0]
  /\ \A nd \in Nodes :
       LET i   == nd[1]
           mid == CDiv2(nd[2] + nd[3])
       IN  (nd[2] # nd[3] /\ ~pending[i]) =>
             value[i] = join_values(Eff(2*i + 1, nd[2], mid),
                                    Eff(2*i + 2, mid + 1, nd[3]))
  /\ \A k \in Idx :
       /\ Logical(0, 0, len - 1, k) = A[k]
       /\ Logical(0, 0, len - 1, k) = at(tree, k).ret

\* C19 witness: in a three-element tree node 1 (span [0,1]) is not pending,
\* its child node 3 is pending with a stale value, and value[1] agrees with
\* the children's values once their deferred deltas are applied.
C19_Witness ==
  /\ len = 3 /\ last = "update" /\ ~pending[1] /\ pending[3]
  /\ value[3] # Eff(3, 0, 0)
  /\ value[1] # join_values(value[3], value[4])
  /\ value[1] = join_values(Eff(3, 0, 0), Eff(4, 1, 1))
  /\ Logical(0, 0, 2, 0) = A[0]

----------------------------------------------------------------------------
\* Larger sizes, for the indexing of the slots: a construction of n up to
\* MaxSlotsN elements, at most one update, and reads.

MaxSlotsN == 6

\* The sequence 0, 1, ..., n-1.
Ramp == [n \in 0..(MaxSlotsN + 1) |-> {[k \in 0..(n - 1) |-> k]}]

InitSlots == InitFill(1..MaxSlotsN, {1}) \/ InitSeq(1..MaxSlotsN, Ramp)

FirstUpdate ==
  /\ Live /\ nupd = 0
  /\ \E p \in Ranges :
       DoUpdate(p[1], p[2], 2, update_pub(tree, p[1], p[2], 2))
  /\ UNCHANGED pc

NextSlots == FirstUpdate \/ Query \/ At

SpecSlots == InitSlots /\ [][NextSlots]_vars

\* The indices of the slots, 0..4n-1.
FourN == 0..(4 * len - 1)

\* The slots an invocation on node i of span [lo, hi] may touch: its own
\* and, unless it is a leaf, those of its children 2i+1 and 2i+2.
Touched(i, lo, hi) == IF lo = hi THEN {i} ELSE {i, 2*i + 1, 2*i + 2}

\* C18: for every n >= 1 the three vectors have the slots 0..4n-1, and
\* construction, every valid query and every valid update end without an
\* access outside them: every node index they visit, and the child indices
\* 2i+1 and 2i+2 a push at a non-leaf node writes, lie in 0..4n-1.
C18_SlotsSuffice ==
  /\ outcome = "ok"
  /\ DOMAIN value = FourN /\ DOMAIN delta = FourN /\ DOMAIN pending = FourN
  /\ \A nd \in Nodes : Touched(nd[1], nd[2], nd[3]) \subseteq FourN
  /\ \A p \in Ranges :
       LET q == query_pub(tree, p[1], p[2]).w
           u == update_pub(tree, p[1], p[2], 2)
       IN  /\ ~q.oob /\ ~u.oob
           /\ \A c \in q.calls \cup u.calls :
                Touched(c.i, c.lo, c.hi) \subseteq FourN

\* C18 witness: six elements (not a power of two), after update(3, 4, d):
\* the push at node 5 wrote the child slot 12 = 2n, beyond the first 2n
\* slots and within the 4n.
C18_Witness ==
  /\ len = 6 /\ last = "update" /\ outcome = "ok"
  /\ <<5, 3, 4>> \in Nodes /\ pending[12]
  /\ 12 \in FourN

----------------------------------------------------------------------------
\* The order of the deferred updates.  Runs with T = the sequence of the
\* updates applied (the k-th update call of a run has the delta <<k>>), and
\* runs of the coded (min, set) operators.

MaxStampCells == 9

InitOrder ==
  \/ \E n \in 1..MaxN :
       /\ ops = "hist"
       /\ Constructed("hist", n, segment_tree(n, <<>>),
                      [k \in 0..(n - 1) |-> <<>>], 0)
  \/ InitFree /\ ops = "minset"

StampedUpdate ==
  /\ ops = "hist"
  /\ Live /\ (nupd + 1) * len <= MaxStampCells
  /\ \E p \in Ranges :
       DoUpdate(p[1], p[2], <<nupd + 1>>,
                update_pub(tree, p[1], p[2], <<nupd + 1>>))
  /\ UNCHANGED pc

SetUpdate == ops = "minset" /\ UpdateRange

NextOrder == StampedUpdate \/ SetUpdate \/ Query \/ At

SpecOrder == InitOrder /\ [][NextOrder]_vars

\* The update calls a delta stands for.
Stamps(d) == {d[x] : x \in DOMAIN d}

\* Node b lies strictly below node a.
Below(b, a) == a[2] <= b[2] /\ b[3] <= a[3] /\ a[1] # b[1]

\* C15: whenever a node and a node strictly below it are both pending,
\* every update call in the upper delta was made after every update call in
\* the lower delta; no deferred update is lost or reordered (index k reads
\* as the updates that covered it, in call order, through at(k) and off the
\* fields); and with the "set" delta, after a later update(lo, hi, d) every
\* i of [lo, hi] - so every i shared with an earlier update's range - reads
\* d, whatever query is made next.
C15_DeferredOrder ==
  /\ ops = "hist" =>
       /\ \A a \in Nodes, b \in Nodes :
            (Below(b, a) /\ pending[a[1]] /\ pending[b[1]]) =>
              \A x \in Stamps(delta[a[1]]), y \in Stamps(delta[b[1]]) : x > y
       /\ \A k \in Idx :
            /\ at(tree, k).ret = A[k]
            /\ Logical(0, 0, len - 1, k) = A[k]
            /\ \A x \in DOMAIN A[k], y \in DOMAIN A[k] :
                 x < y => A[k][x] < A[k][y]
  /\ ops = "minset" =>
       \A p \in Ranges, d \in Deltas :
         LET t1 == After(update_pub(tree, p[1], p[2], d))
         IN  \A i \in p[1]..p[2] :
               /\ at(t1, i).ret = d
               /\ \A q \in Ranges :
                    at(After(query_pub(t1, q[1], q[2]).w), i).ret = d

\* C15 witness: in a three-element tree after three updates, node 1 (span
\* [0,1]) defers the second and third update, its child node 3 still defers
\* the first, and at(0) reads the three in call order.
C15_Witness ==
  /\ ops = "hist" /\ len = 3 /\ nupd = 3
  /\ pending[1] /\ pending[3]
  /\ delta[1] = <<2, 3>> /\ delta[3] = <<1>>
  /\ at(tree, 0).ret = <<1, 2, 3>>

====
